---- MODULE Spec2Model ----
(***************************************************************************)
(* A model of the recursive-descent parser of src/src/parser.cpp.          *)
(*                                                                         *)
(* The parser object is the record p.  Its fields source, index, curr,     *)
(* lineNumber, comments and typeNames are the fields of class Parser; heap *)
(* is the bytes that lie behind the terminating NUL of the source buffer;  *)
(* err is the exception in flight (<<>> when none), failed whether there   *)
(* is one; v is the value the last call returned and w its second result,  *)
(* where a loop hands back two.  Every member function is an operator that *)
(* takes the parser record and returns the parser record after the call.   *)
(*                                                                         *)
(* A thrown exception unwinds the callers: an operator that is given a     *)
(* failed parser returns it as it is, so the failure passes unchanged      *)
(* through whatever is applied to it afterwards.  Where an operator makes  *)
(* several calls in a row, CASE tests a.failed, b.failed, ... in the order *)
(* of the calls; the branches that overlap yield the same parser.  The     *)
(* arms of a CASE are tried from the first to the last, as the branches of *)
(* an if ... else if chain are.                                            *)
(*                                                                         *)
(* Spec is parse() on whole sources; SpecLookahead and SpecExpr apply      *)
(* lookahead() and parseExpression() on their own to a parser that stands  *)
(* on the first character of its source.                                   *)
(*                                                                         *)
(* Characters are one-character strings, strings are sequences of them.    *)
(***************************************************************************)
EXTENDS Integers, Sequences, FiniteSets, TLC

VARIABLES source, index, curr, lineNumber, comments, typeNames, heap,
          statements, pc, error, result, arg

vars == <<source, index, curr, lineNumber, comments, typeNames, heap,
          statements, pc, error, result, arg>>

----------------------------------------------------------------------------
(* Characters and the character classes of parser.hpp.                     *)

NUL == "NUL"
BEL == "BEL"

LowerLetters == {"a","b","c","d","e","f","g","h","i","j","k","l","m",
                 "n","o","p","q","r","s","t","u","v","w","x","y","z"}

UpperLetters == {"A","B","C","D","E","F","G","H","I","J","K","L","M",
                 "N","O","P","Q","R","S","T","U","V","W","X","Y","Z"}

Digits == {"0","1","2","3","4","5","6","7","8","9"}

isSpace(c) == c \in {" ", "\n", "\t", "\r"}

isFloat(c) == c \in Digits \cup {"."}

isHex(c) == c \in Digits \cup {"a","b","c","d","e","f","A","B","C","D","E","F"}

isOct(c) == c \in {"0","1","2","3","4","5","6","7"}

isIdentifierStart(c) == c \in LowerLetters \cup UpperLetters \cup {"_"}

isIdentifierBody(c) == isIdentifierStart(c) \/ c \in Digits

isIllegal(c) == c = BEL

isIdentifier(str) ==
    /\ Len(str) > 0
    /\ isIdentifierStart(str[1])
    /\ \A k \in 2..Len(str) : isIdentifierBody(str[k])

tolower(c) ==
    CASE c = "E" -> "e"
      [] c = "L" -> "l"
      [] c = "U" -> "u"
      [] c = "X" -> "x"
      [] OTHER -> c

----------------------------------------------------------------------------
(* Values.                                                                 *)

Null == [kind |-> "null"]

IsNull(v) == v.kind = "null"

NoErr == <<>>

(* return v;                                                               *)
R(p, v) == IF p.failed THEN p ELSE [p EXCEPT !.v = v]

(* return v; for a loop that hands back w as well.                         *)
RW(p, v, w) == IF p.failed THEN p ELSE [p EXCEPT !.v = v, !.w = w]

(* throw e;                                                                *)
Throw(p, e) ==
    IF p.failed THEN p ELSE [p EXCEPT !.err = e, !.failed = TRUE, !.v = Null]

DigitOf(d) == CASE d = 0 -> "0" [] d = 1 -> "1" [] d = 2 -> "2" [] d = 3 -> "3"
                [] d = 4 -> "4" [] d = 5 -> "5" [] d = 6 -> "6" [] d = 7 -> "7"
                [] d = 8 -> "8" [] d = 9 -> "9"

RECURSIVE to_string(_)
to_string(n) == IF n < 10 THEN <<DigitOf(n)>>
                ELSE Append(to_string(n \div 10), DigitOf(n % 10))

(* Parser::unexpected: "Line number " + to_string(lineNumber) + ": Expect " *)
(* + expected, as the sequence of its pieces.                              *)
unexpected(p, expected) ==
    <<"Line number ">> \o to_string(p.lineNumber) \o <<": Expect ">> \o expected

(* runtime_error(msg): a message that does not go through unexpected.      *)
runtime_error(msg) == <<msg>>

(* The process is killed when it reads outside the memory it owns.         *)
Crash == <<"SIGSEGV">>

----------------------------------------------------------------------------
(* The cursor.                                                             *)

(* source[i]: the character at i, the terminating NUL at size(), and the   *)
(* bytes of heap behind it.                                                *)
charAt(p, i) ==
    IF i >= 0 /\ i < Len(p.source) THEN p.source[i + 1]
    ELSE IF i > Len(p.source) /\ i - Len(p.source) <= Len(p.heap)
         THEN p.heap[i - Len(p.source)]
         ELSE NUL

Mapped(p, i) == i >= 0 /\ i <= Len(p.source) + Len(p.heap)

(* index = i; curr = source[index];                                        *)
seek(p, i) ==
    IF p.failed THEN p
    ELSE IF Mapped(p, i)
    THEN [p EXCEPT !.index = i, !.curr = charAt(p, i)]
    ELSE Throw([p EXCEPT !.index = i, !.curr = NUL], Crash)

(* if (curr == '\n') lineNumber++; index++; curr = source[index];          *)
advance(p) ==
    seek([p EXCEPT !.lineNumber = IF p.curr = "\n" THEN @ + 1 ELSE @],
         p.index + 1)

(* while (curr && isSpace(curr)) { ... }                                   *)
RECURSIVE skipRun(_)
skipRun(p) ==
    IF p.failed \/ p.curr = NUL \/ ~isSpace(p.curr) THEN p
    ELSE skipRun(advance(p))

(* A for loop over the characters lo..hi of a string, or over the entries  *)
(* lo..hi of a table, is evaluated in five runs, each from the parser the  *)
(* run before it leaves: the same steps in the same order.  Run k is       *)
(* Cut(lo, hi, k - 1) .. Cut(lo, hi, k) - 1.                               *)
Cut(lo, hi, k) == lo + ((hi - lo + 1) * k) \div 5

----------------------------------------------------------------------------
(* The calls of member functions.  call(f, p, a) is the call of f on the   *)
(* parser p with the arguments a, where f is a member function of class    *)
(* Parser, the body of the loop of parse(), or one of the loops scanLoop,  *)
(* modifierPass, typeNameLoop and lengthLoop.  The operator that has the   *)
(* name f is a call of f; Parser_f is what f does.                         *)

RECURSIVE call(_, _, _)

next(p, withSpaces, withComment) ==
    call("next", p, <<withSpaces, withComment>>)

skipSpaces(p) == call("skipSpaces", p, <<>>)

lookahead(p, str, keepBlanks) == call("lookahead", p, <<str, keepBlanks>>)

consume(p, str) == call("consume", p, <<str>>)

parseComment(p) == call("parseComment", p, <<>>)

parseIdentifier(p, keepBlanks) == call("parseIdentifier", p, <<keepBlanks>>)

parseNumber(p, digits) == call("parseNumber", p, <<digits>>)

parseEscape(p) == call("parseEscape", p, <<>>)

parseString(p, keepBlanks) == call("parseString", p, <<keepBlanks>>)

scanBinaryOperator(p) == call("scanBinaryOperator", p, <<>>)

parseBinary(p, left, minPrecedence) ==
    call("parseBinary", p, <<left, minPrecedence>>)

parseExpression(p, end) == call("parseExpression", p, <<end>>)

parseUnary(p) == call("parseUnary", p, <<>>)

parseLiteral(p) == call("parseLiteral", p, <<>>)

declarationIncoming(p) == call("declarationIncoming", p, <<>>)

parseDeclaration(p, kind) == call("parseDeclaration", p, <<kind>>)

parseDefinition(p, declaration, isGlobal) ==
    call("parseDefinition", p, <<declaration, isGlobal>>)

parseParameters(p) == call("parseParameters", p, <<>>)

parseBody(p, shouldBeBlock) == call("parseBody", p, <<shouldBeBlock>>)

parseStatement(p) == call("parseStatement", p, <<>>)

parseFunction(p, declaration) == call("parseFunction", p, <<declaration>>)

parseInclude(p) == call("parseInclude", p, <<>>)

parsePredefine(p) == call("parsePredefine", p, <<>>)

parseTurn(p, list) == call("parseTurn", p, <<list>>)

modifierPass(p, lo, hi, modifiers, hasModifier) ==
    call("modifierPass", p, <<lo, hi, modifiers, hasModifier>>)

scanLoop(p, list, lo, hi, _index) ==
    call("scanLoop", p, <<list, lo, hi, _index>>)

typeNameLoop(p, lo, hi) == call("typeNameLoop", p, <<lo, hi>>)

lengthLoop(p, length) == call("lengthLoop", p, <<length>>)

----------------------------------------------------------------------------
(* Reading the source.                                                     *)

(* One round of do { ... } while (skipped) in next.                        *)
RECURSIVE nextLoop(_, _, _)
nextLoop(p, withSpaces, withComment) ==
    LET spaces == ~withSpaces /\ isSpace(p.curr)
        s == IF spaces THEN skipRun(p) ELSE p
        c == IF withComment THEN R(s, Null) ELSE parseComment(s)
        q == IF IsNull(c.v) THEN c ELSE [c EXCEPT !.comments = Append(@, c.v)]
    IN  CASE s.failed -> s
          [] c.failed -> c
          [] ~withComment /\ isIllegal(q.curr) ->
                Throw(q, unexpected(q, <<"legal character">>))
          [] spaces \/ ~IsNull(c.v) -> nextLoop(q, withSpaces, withComment)
          [] OTHER -> q

Parser_next(p, withSpaces, withComment) ==
    IF p.failed THEN p ELSE nextLoop(advance(p), withSpaces, withComment)

Parser_skipSpaces(p) ==
    IF p.failed THEN p
    ELSE IF isSpace(p.curr) THEN next(p, FALSE, FALSE) ELSE p

(* for (char ch: str) { if (curr != ch) { index = _index; curr =           *)
(* source[index]; return false; } next(true); } for the characters lo..hi: *)
(* v is whether all of them matched.                                       *)
RECURSIVE lookaheadLoop(_, _, _, _, _)
lookaheadLoop(p, str, lo, hi, _index) ==
    CASE p.failed -> p
      [] lo > hi -> R(p, TRUE)
      [] lo = hi -> IF p.curr # str[lo] THEN R(seek(p, _index), FALSE)
                    ELSE R(next(p, TRUE, FALSE), TRUE)
      [] OTHER ->
        LET a == lookaheadLoop(p, str, lo, Cut(lo, hi, 1) - 1, _index)
            b == lookaheadLoop(a, str, Cut(lo, hi, 1), Cut(lo, hi, 2) - 1, _index)
            c == lookaheadLoop(b, str, Cut(lo, hi, 2), Cut(lo, hi, 3) - 1, _index)
            d == lookaheadLoop(c, str, Cut(lo, hi, 3), Cut(lo, hi, 4) - 1, _index)
        IN  CASE a.failed \/ ~a.v -> a
              [] b.failed \/ ~b.v -> b
              [] c.failed \/ ~c.v -> c
              [] d.failed \/ ~d.v -> d
              [] OTHER -> lookaheadLoop(d, str, Cut(lo, hi, 4), hi, _index)

(* The first branch is the first round of the for loop, which fails on the *)
(* first character.                                                        *)
Parser_lookahead(p, str, keepBlanks) ==
    IF p.failed THEN p
    ELSE IF p.curr # str[1] THEN R(seek(p, p.index), FALSE)
    ELSE LET m == lookaheadLoop(p, str, 1, Len(str), p.index)
         IN  CASE m.failed -> m
               [] ~m.v -> m
               [] isIdentifierStart(m.curr) /\ isIdentifier(str) ->
                     R(seek(m, p.index), FALSE)
               [] OTHER -> IF keepBlanks THEN m ELSE R(skipSpaces(m), TRUE)

(* while (curr != '*' || source[index + 1] != '/') { str.push_back(curr);  *)
(* next(true, true); }                                                     *)
RECURSIVE blockCommentLoop(_, _)
blockCommentLoop(p, str) ==
    IF p.failed THEN p
    ELSE IF p.curr # "*" \/ charAt(p, p.index + 1) # "/"
    THEN blockCommentLoop(next(p, TRUE, TRUE), Append(str, p.curr))
    ELSE R(p, str)

(* while (curr != '\n') { str.push_back(curr); next(true, true); }         *)
RECURSIVE inlineCommentLoop(_, _)
inlineCommentLoop(p, str) ==
    IF p.failed THEN p
    ELSE IF p.curr # "\n"
    THEN inlineCommentLoop(next(p, TRUE, TRUE), Append(str, p.curr))
    ELSE R(p, str)

Parser_parseComment(p) ==
    LET b == lookahead(p, <<"/", "*">>, FALSE)
        l == lookahead(b, <<"/", "/">>, FALSE)
    IN  CASE b.failed -> b
          [] b.v -> LET body == blockCommentLoop(b, <<>>)
                    IN  R(seek(body, body.index + 2),
                          [kind |-> "BlockComment", position |-> b.lineNumber,
                           content |-> body.v])
          [] l.failed -> l
          [] l.v -> LET body == inlineCommentLoop(l, <<>>)
                    IN  R(body, [kind |-> "InlineComment",
                                 position |-> l.lineNumber, content |-> body.v])
          [] OTHER -> R(l, Null)

(* for (char ch: str) { if (curr != ch) throw unexpected(str); next(); }   *)
(* for the characters lo..hi.                                              *)
RECURSIVE consumeLoop(_, _, _, _)
consumeLoop(p, str, lo, hi) ==
    CASE p.failed -> p
      [] lo > hi -> p
      [] lo = hi -> IF p.curr # str[lo] THEN Throw(p, unexpected(p, str))
                    ELSE next(p, FALSE, FALSE)
      [] OTHER ->
        LET a == consumeLoop(p, str, lo, Cut(lo, hi, 1) - 1)
            b == consumeLoop(a, str, Cut(lo, hi, 1), Cut(lo, hi, 2) - 1)
            c == consumeLoop(b, str, Cut(lo, hi, 2), Cut(lo, hi, 3) - 1)
            d == consumeLoop(c, str, Cut(lo, hi, 3), Cut(lo, hi, 4) - 1)
        IN  CASE a.failed -> a
              [] b.failed -> b
              [] c.failed -> c
              [] d.failed -> d
              [] OTHER -> consumeLoop(d, str, Cut(lo, hi, 4), hi)

Parser_consume(p, str) == consumeLoop(p, str, 1, Len(str))

----------------------------------------------------------------------------
(* The configuration tables of parser.hpp.                                 *)

typeModifiers == << <<"c","o","n","s","t">>, <<"s","t","a","t","i","c">>,
                    <<"u","n","s","i","g","n","e","d">>,
                    <<"s","i","g","n","e","d">>, <<"l","o","n","g">>,
                    <<"s","h","o","r","t">> >>

builtinTypeNames == << <<"v","o","i","d">>, <<"c","h","a","r">>,
                       <<"i","n","t">>, <<"f","l","o","a","t">>,
                       <<"d","o","u","b","l","e">> >>

operators == << <<"<","<","=">>, <<">",">","=">>,
                <<"=","=">>, <<"!","=">>, <<"<","=">>, <<">","=">>,
                <<"&","&">>, <<"|","|">>, <<"<","<">>, <<">",">">>,
                <<"+","=">>, <<"-","=">>, <<"*","=">>, <<"/","=">>,
                <<"=">>, <<"<">>, <<">">>, <<"+">>, <<"-">>,
                <<"*">>, <<"/">>, <<"%">>, <<"&">>, <<"|">>, <<"^">> >>

precedence(op) ==
    CASE op \in {<<"=">>, <<"+","=">>, <<"-","=">>, <<"*","=">>, <<"/","=">>,
                 <<"<","<","=">>, <<">",">","=">>}           -> 1
      [] op = <<"|","|">>                                    -> 2
      [] op = <<"&","&">>                                    -> 3
      [] op = <<"|">>                                        -> 4
      [] op = <<"^">>                                        -> 5
      [] op = <<"&">>                                        -> 6
      [] op \in {<<"=","=">>, <<"!","=">>}                   -> 7
      [] op \in {<<"<">>, <<">">>, <<"<","=">>, <<">","=">>} -> 8
      [] op \in {<<"<","<">>, <<">",">">>}                   -> 9
      [] op \in {<<"+">>, <<"-">>}                           -> 10
      [] op \in {<<"*">>, <<"/">>, <<"%">>}                  -> 11
      [] OTHER                                               -> 0

escapes(c) == c \in {"n","t","r","0","\\","'","\"","a","b","f","v"}

----------------------------------------------------------------------------
(* Lexical readers.                                                        *)

(* while (curr && isIdentifierBody(curr)) { name.push_back(curr);          *)
(* next(true); }                                                           *)
RECURSIVE identifierLoop(_, _)
identifierLoop(p, name) ==
    IF p.failed THEN p
    ELSE IF p.curr # NUL /\ isIdentifierBody(p.curr)
    THEN identifierLoop(next(p, TRUE, FALSE), Append(name, p.curr))
    ELSE R(p, name)

Parser_parseIdentifier(p, keepBlanks) ==
    IF p.failed THEN p
    ELSE IF ~isIdentifierStart(p.curr)
    THEN Throw(p, unexpected(p, <<"Identifier">>))
    ELSE LET body == identifierLoop(next(p, TRUE, FALSE), <<p.curr>>)
         IN  IF body.failed THEN body
             ELSE R(IF keepBlanks THEN body ELSE skipSpaces(body),
                    [kind |-> "Identifier", position |-> p.lineNumber,
                     name |-> body.v])

(* The while loop of parseNumber: v is value, w is type.                   *)
RECURSIVE numberLoop(_, _, _, _)
numberLoop(p, digits, value, type) ==
    IF p.failed THEN p
    ELSE IF \/ (p.curr # NUL /\ (IF digits = 16 THEN isHex(p.curr)
                                              ELSE isFloat(p.curr)))
            \/ (digits # 16 /\ tolower(p.curr) = "e")
            \/ (p.curr = "-" /\ digits # 16
                /\ tolower(charAt(p, p.index - 1)) = "e")
    THEN numberLoop(next(p, TRUE, FALSE), digits, Append(value, p.curr),
                    IF p.curr = "." THEN "FloatNumberLiteral" ELSE type)
    ELSE RW(p, value, type)

(* The type were the leading 0 not looked at.                              *)
sameType(value, type) == type

(* if (value[0] == '0' && type != "FloatNumberLiteral") type =             *)
(* "OctNumberLiteral";                                                     *)
octOf(value, type) ==
    IF value[1] = "0" /\ type # "FloatNumberLiteral"
    THEN "OctNumberLiteral"
    ELSE type

(* if (tolower(curr) == ch) { type = prefix + type; value.push_back(curr); *)
(* next(true); }: v is value, w is type.                                   *)
suffix(p, ch, prefix) ==
    IF p.failed THEN p
    ELSE IF tolower(p.curr) = ch
    THEN RW(next(p, TRUE, FALSE), Append(p.v, p.curr), prefix \o p.w)
    ELSE p

Parser_parseNumber(p, digits) ==
    IF p.failed THEN p
    ELSE IF digits = 16 /\ ~isHex(p.curr)
    THEN Throw(p, unexpected(p, <<"Number">>))
    ELSE
    LET type == IF p.curr = "." THEN "FloatNumberLiteral"
                ELSE IF digits = 16 THEN "HexNumberLiteral"
                ELSE "NumberLiteral"
        body == numberLoop(next(p, TRUE, FALSE), digits, <<p.curr>>, type)
        oct == RW(body, body.v, octOf(body.v, body.w))
        long == suffix(oct, "l", "Long")
        unsigned == suffix(long, "u", "Unsigned")
    IN  CASE body.failed -> body
          [] unsigned.failed -> unsigned
          [] digits = 16 /\ unsigned.curr = "." ->
                Throw(unsigned, unexpected(unsigned, <<"hex number">>))
          [] OTHER ->
                R(skipSpaces(unsigned),
                  [kind |-> unsigned.w, position |-> p.lineNumber,
                   value |-> IF digits = 16 THEN <<"0", "x">> \o unsigned.v
                             ELSE unsigned.v])

(* string("0123456789abcdef").find((char) tolower(c))                      *)
hexValue(c) ==
    CASE c = "0" -> 0 [] c = "1" -> 1 [] c = "2" -> 2 [] c = "3" -> 3
      [] c = "4" -> 4 [] c = "5" -> 5 [] c = "6" -> 6 [] c = "7" -> 7
      [] c = "8" -> 8 [] c = "9" -> 9
      [] c \in {"a", "A"} -> 10 [] c \in {"b", "B"} -> 11
      [] c \in {"c", "C"} -> 12 [] c \in {"d", "D"} -> 13
      [] c \in {"e", "E"} -> 14 [] c \in {"f", "F"} -> 15

(* string(1, code): the one byte with that code, written "\" and the code. *)
byte(code) == "\\" \o ToString(code)

(* for (int i = 0; i < n; i++) if (isHex(curr)) { code = code * 16 + ...;  *)
(* next(true, true); } and the same with isOct and 8: v is code.           *)
RECURSIVE escapeDigits(_, _, _, _)
escapeDigits(p, base, i, code) ==
    IF p.failed THEN p
    ELSE IF i = 0 THEN R(p, code)
    ELSE IF (IF base = 16 THEN isHex(p.curr) ELSE isOct(p.curr))
    THEN escapeDigits(next(p, TRUE, TRUE), base, i - 1,
                      code * base + hexValue(p.curr))
    ELSE escapeDigits(p, base, i - 1, code)

Parser_parseEscape(p) ==
    LET q == seek(p, p.index + 1)
    IN  CASE q.failed -> q
          [] q.curr = "x" ->
                LET d == escapeDigits(next(q, TRUE, TRUE), 16, 2, 0)
                IN  R(d, <<byte(d.v)>>)
          [] isOct(q.curr) ->
                LET d == escapeDigits(q, 8, 3, 0)
                IN  R(d, <<byte(d.v)>>)
          [] escapes(q.curr) -> R(next(q, TRUE, TRUE), <<"\\", q.curr>>)
          [] OTHER -> Throw(q, unexpected(q, <<"escape sequence">>))

(* while (curr && curr != '"') { ... }: v is str.                          *)
RECURSIVE stringLoop(_, _)
stringLoop(p, str) ==
    IF p.failed THEN p
    ELSE IF p.curr # NUL /\ p.curr # "\""
    THEN IF p.curr = "\\"
         THEN LET e == parseEscape(p)
              IN  IF e.failed THEN e ELSE stringLoop(e, str \o e.v)
         ELSE stringLoop(next(p, TRUE, TRUE), Append(str, p.curr))
    ELSE R(p, str)

Parser_parseString(p, keepBlanks) ==
    LET body == stringLoop(next(p, TRUE, TRUE), <<>>)
        quote == lookahead(body, <<"\"">>, keepBlanks)
    IN  CASE body.failed -> body
          [] quote.failed -> quote
          [] ~quote.v -> Throw(quote, unexpected(quote, <<"double quote">>))
          [] OTHER -> R(quote, body.v)

----------------------------------------------------------------------------
(* Expressions.                                                            *)

(* for (json &str: list) if (lookahead(str)) { index = _index; curr =      *)
(* source[index]; return ...; } for the entries lo..hi of list: v is the   *)
(* place of the first entry that matched, 0 when none did.                 *)
Parser_scanLoop(p, list, lo, hi, _index) ==
    CASE p.failed -> p
      [] lo > hi -> R(p, 0)
      [] lo = hi -> LET l == lookahead(p, list[lo], FALSE)
                    IN  CASE l.failed -> l
                          [] l.v -> R(seek(l, _index), lo)
                          [] OTHER -> R(l, 0)
      [] OTHER ->
        LET a == scanLoop(p, list, lo, Cut(lo, hi, 1) - 1, _index)
            b == scanLoop(a, list, Cut(lo, hi, 1), Cut(lo, hi, 2) - 1, _index)
            c == scanLoop(b, list, Cut(lo, hi, 2), Cut(lo, hi, 3) - 1, _index)
            d == scanLoop(c, list, Cut(lo, hi, 3), Cut(lo, hi, 4) - 1, _index)
        IN  CASE a.failed \/ a.v > 0 -> a
              [] b.failed \/ b.v > 0 -> b
              [] c.failed \/ c.v > 0 -> c
              [] d.failed \/ d.v > 0 -> d
              [] OTHER -> scanLoop(d, list, Cut(lo, hi, 4), hi, _index)

Parser_scanBinaryOperator(p) ==
    LET m == scanLoop(p, operators, 1, Len(operators), p.index)
    IN  IF m.failed THEN m
        ELSE R(m, IF m.v > 0 THEN operators[m.v] ELSE <<>>)

(* precedence[ahead] >= minPrecedence, the bound of the outer loop.        *)
reaches(ahead, minPrecedence) == precedence(ahead) >= minPrecedence

(* The bound of the inner loop were it >=: equal precedence would then     *)
(* group to the right.                                                     *)
notLooser(ahead, op) == precedence(ahead) >= precedence(op)

(* precedence[ahead] > precedence[op], the bound of the inner loop.        *)
tighter(ahead, op) == precedence(ahead) > precedence(op)

(* The inner loop of parseBinary: while the operator ahead binds tighter   *)
(* than op, the right operand grows.  v is right, w is ahead.              *)
RECURSIVE climbLoop(_, _, _, _)
climbLoop(p, right, op, ahead) ==
    CASE p.failed -> p
      [] ahead # <<>> /\ tighter(ahead, op) ->
            LET b == parseBinary(p, right, precedence(ahead))
                s == scanBinaryOperator(b)
            IN  CASE b.failed -> b
                  [] IsNull(b.v) -> Throw(b, unexpected(b, <<"right value">>))
                  [] s.failed -> s
                  [] OTHER -> climbLoop(s, b.v, op, s.v)
      [] OTHER -> RW(p, right, ahead)

(* The outer loop of parseBinary: v is left.                               *)
RECURSIVE binaryLoop(_, _, _, _)
binaryLoop(p, left, minPrecedence, ahead) ==
    CASE p.failed -> p
      [] ahead # <<>> /\ reaches(ahead, minPrecedence) ->
            LET r == parseUnary(consume(p, ahead))
                s == scanBinaryOperator(r)
                c == climbLoop(s, r.v, ahead, s.v)
            IN  CASE r.failed -> r
                  [] IsNull(r.v) -> Throw(r, unexpected(r, <<"right value">>))
                  [] s.failed -> s
                  [] c.failed -> c
                  [] OTHER ->
                        binaryLoop(c, [kind |-> "BinaryExpression",
                                       position |-> p.lineNumber,
                                       left |-> left, right |-> c.v,
                                       op |-> ahead],
                                   minPrecedence, c.w)
      [] OTHER -> R(p, left)

Parser_parseBinary(p, left, minPrecedence) ==
    LET s == scanBinaryOperator(p)
    IN  IF s.failed THEN s ELSE binaryLoop(s, left, minPrecedence, s.v)

Parser_parseExpression(p, end) ==
    LET u == parseUnary(p)
        b == parseBinary(u, u.v, 0)
    IN  CASE u.failed -> u
          [] b.failed -> b
          [] end = <<>> -> b
          [] OTHER -> R(consume(b, end), b.v)

(* while (curr) { list.push_back(parseExpression()); if (!lookahead(","))  *)
(* break; }: v is list.                                                    *)
RECURSIVE expressionList(_, _)
expressionList(p, list) ==
    CASE p.failed -> p
      [] p.curr = NUL -> R(p, list)
      [] OTHER -> LET e == parseExpression(p, <<>>)
                      l == lookahead(e, <<",">>, FALSE)
                  IN  CASE e.failed -> e
                        [] l.failed -> l
                        [] l.v -> expressionList(l, Append(list, e.v))
                        [] OTHER -> R(l, Append(list, e.v))

(* while (lookahead("[")) { indexes.push_back(parseExpression());          *)
(* consume("]"); }: v is indexes.                                          *)
RECURSIVE indexLoop(_, _)
indexLoop(p, indexes) ==
    LET l == lookahead(p, <<"[">>, FALSE)
        e == parseExpression(l, <<>>)
    IN  CASE l.failed -> l
          [] ~l.v -> R(l, indexes)
          [] e.failed -> e
          [] OTHER -> indexLoop(consume(e, <<"]">>), Append(indexes, e.v))

callExpression(p, callee) ==
    LET arguments == expressionList(p, <<>>)
    IN  IF arguments.failed THEN arguments
        ELSE R(consume(arguments, <<")">>),
               [kind |-> "CallExpression", position |-> p.lineNumber,
                arguments |-> arguments.v, callee |-> callee])

parenthesesExpression(p) ==
    LET e == parseExpression(p, <<>>)
    IN  IF e.failed THEN e
        ELSE R(consume(e, <<")">>),
               [kind |-> "ParenthesesExpression", position |-> p.lineNumber,
                expression |-> e.v])

Parser_parseUnary(p) ==
    LET literal == parseLiteral(p)
        indexes == indexLoop(literal, <<>>)
        paren == lookahead(indexes, <<"(">>, FALSE)
    IN  CASE literal.failed -> literal
          [] indexes.failed -> indexes
          [] Len(indexes.v) > 0 ->
                R(indexes, [kind |-> "IndexExpression",
                            position |-> indexes.lineNumber,
                            array |-> literal.v, indexes |-> indexes.v])
          [] paren.failed -> paren
          [] ~paren.v -> R(paren, literal.v)
          [] ~IsNull(literal.v) -> callExpression(paren, literal.v)
          [] OTHER -> parenthesesExpression(paren)

arrayLiteral(p) ==
    LET entries == expressionList(p, <<>>)
    IN  IF entries.failed THEN entries
        ELSE R(consume(entries, <<"}">>),
               [kind |-> "ArrayLiteral", position |-> p.lineNumber,
                value |-> entries.v])

charLiteral(p) ==
    LET q == next(p, TRUE, TRUE)
        ch == IF q.curr = "\\" THEN parseEscape(q)
              ELSE R(next(q, TRUE, TRUE), <<q.curr>>)
    IN  CASE q.failed -> q
          [] ch.failed -> ch
          [] OTHER -> R(consume(ch, <<"'">>),
                        [kind |-> "CharLiteral", position |-> q.lineNumber,
                         value |-> ch.v])

stringLiteral(p) ==
    LET str == parseString(p, FALSE)
    IN  R(str, [kind |-> "StringLiteral", position |-> p.lineNumber,
                value |-> str.v])

negative(p) ==
    LET literal == parseNumber(p, 16)
    IN  IF literal.failed THEN literal
        ELSE R(literal, [literal.v EXCEPT !.value = <<"-">> \o @])

Parser_parseLiteral(p) ==
    LET brace == lookahead(p, <<"{">>, FALSE)
        hex == lookahead(brace, <<"0", "x">>, FALSE)
        neg == lookahead(hex, <<"-", "0", "x">>, FALSE)
    IN  CASE brace.failed -> brace
          [] brace.v -> arrayLiteral(brace)
          [] brace.curr = "'" -> charLiteral(brace)
          [] brace.curr = "\"" -> stringLiteral(brace)
          [] hex.failed -> hex
          [] hex.v -> parseNumber(hex, 16)
          [] neg.failed -> neg
          [] neg.v -> negative(neg)
          [] isFloat(neg.curr) \/ neg.curr = "-" -> parseNumber(neg, 10)
          [] isIdentifierStart(neg.curr) -> parseIdentifier(neg, FALSE)
          [] OTHER -> R(neg, Null)

----------------------------------------------------------------------------
(* Declarations.                                                           *)

Parser_declarationIncoming(p) ==
    LET modifier == scanLoop(p, typeModifiers, 1, Len(typeModifiers), p.index)
        name == scanLoop(modifier, p.typeNames, 1, Len(p.typeNames), p.index)
    IN  CASE modifier.failed -> modifier
          [] modifier.v > 0 -> R(modifier, TRUE)
          [] name.failed -> name
          [] OTHER -> R(name, name.v > 0)

(* for (json &modifier: typeModifiers) if (lookahead(modifier)) {          *)
(* modifiers.push_back(modifier); hasModifier = true; } for the entries    *)
(* lo..hi: v is modifiers, w is hasModifier.                               *)
Parser_modifierPass(p, lo, hi, modifiers, hasModifier) ==
    CASE p.failed -> p
      [] lo > hi -> RW(p, modifiers, hasModifier)
      [] lo = hi -> LET l == lookahead(p, typeModifiers[lo], FALSE)
                    IN  CASE l.failed -> l
                          [] l.v -> RW(l, Append(modifiers, typeModifiers[lo]),
                                       TRUE)
                          [] OTHER -> RW(l, modifiers, hasModifier)
      [] OTHER ->
        LET a == modifierPass(p, lo, Cut(lo, hi, 1) - 1, modifiers, hasModifier)
            b == modifierPass(a, Cut(lo, hi, 1), Cut(lo, hi, 2) - 1, a.v, a.w)
            c == modifierPass(b, Cut(lo, hi, 2), Cut(lo, hi, 3) - 1, b.v, b.w)
            d == modifierPass(c, Cut(lo, hi, 3), Cut(lo, hi, 4) - 1, c.v, c.w)
        IN  CASE a.failed -> a
              [] b.failed -> b
              [] c.failed -> c
              [] d.failed -> d
              [] OTHER -> modifierPass(d, Cut(lo, hi, 4), hi, d.v, d.w)

(* do { hasModifier = false; for ... } while (hasModifier): v is modifiers.*)
RECURSIVE modifierLoop(_, _)
modifierLoop(p, modifiers) ==
    LET pass == modifierPass(p, 1, Len(typeModifiers), modifiers, FALSE)
    IN  CASE pass.failed -> pass
          [] pass.w -> modifierLoop(pass, pass.v)
          [] OTHER -> pass

(* for (json &name: typeNames) if (lookahead(name)) ... for the entries    *)
(* lo..hi: v is the place of the first name that matches, 0 when none does.*)
Parser_typeNameLoop(p, lo, hi) ==
    CASE p.failed -> p
      [] lo > hi -> R(p, 0)
      [] lo = hi -> LET l == lookahead(p, p.typeNames[lo], FALSE)
                    IN  IF l.failed THEN l ELSE R(l, IF l.v THEN lo ELSE 0)
      [] OTHER ->
        LET a == typeNameLoop(p, lo, Cut(lo, hi, 1) - 1)
            b == typeNameLoop(a, Cut(lo, hi, 1), Cut(lo, hi, 2) - 1)
            c == typeNameLoop(b, Cut(lo, hi, 2), Cut(lo, hi, 3) - 1)
            d == typeNameLoop(c, Cut(lo, hi, 3), Cut(lo, hi, 4) - 1)
        IN  CASE a.failed \/ a.v > 0 -> a
              [] b.failed \/ b.v > 0 -> b
              [] c.failed \/ c.v > 0 -> c
              [] d.failed \/ d.v > 0 -> d
              [] OTHER -> typeNameLoop(d, Cut(lo, hi, 4), hi)

(* Declaration declaration; declaration.position = lineNumber;             *)
(* declaration.identifier = parseIdentifier(); declaration.type = type;    *)
(* if (!kind.empty()) declaration.kind = kind; return declaration;         *)
declarationOf(p, type, kind) ==
    LET identifier == parseIdentifier(p, FALSE)
    IN  R(identifier,
          [kind |-> IF kind # "" THEN kind ELSE "Declaration",
           position |-> p.lineNumber, identifier |-> identifier.v,
           type |-> type])

(* The type were the first modifier taken for the name, not the last.      *)
frontType(modifiers, position) ==
    [kind |-> "Type", position |-> position,
     modifiers |-> Tail(modifiers), name |-> Head(modifiers)]

(* type.name = modifiers.back(); modifiers.pop_back(); type.modifiers =    *)
(* modifiers;                                                              *)
fallbackType(modifiers, position) ==
    [kind |-> "Type", position |-> position,
     modifiers |-> SubSeq(modifiers, 1, Len(modifiers) - 1),
     name |-> modifiers[Len(modifiers)]]

Parser_parseDeclaration(p, kind) ==
    LET modifiers == modifierLoop(p, <<>>)
        name == typeNameLoop(modifiers, 1, Len(p.typeNames))
    IN  CASE modifiers.failed -> modifiers
          [] name.failed -> name
          [] name.v > 0 ->
                declarationOf(name,
                              [kind |-> "Type", position |-> p.lineNumber,
                               modifiers |-> modifiers.v,
                               name |-> p.typeNames[name.v]],
                              kind)
          [] Len(modifiers.v) > 0 ->
                declarationOf(name, fallbackType(modifiers.v, p.lineNumber),
                              kind)
          [] OTHER -> Throw(name, unexpected(name, <<"correct type name">>))

(* while (lookahead("[")) { isArray = true; if (!lookahead("]")) { ... }   *)
(* else length.push_back(nullptr); }: v is length.                         *)
Parser_lengthLoop(p, length) ==
    LET open == lookahead(p, <<"[">>, FALSE)
        close == lookahead(open, <<"]">>, FALSE)
        e == parseExpression(close, <<>>)
    IN  CASE open.failed -> open
          [] ~open.v -> R(open, length)
          [] close.failed -> close
          [] close.v -> lengthLoop(close, Append(length, Null))
          [] e.failed -> e
          [] OTHER -> lengthLoop(consume(e, <<"]">>), Append(length, e.v))

(* The text the comma of a declarator list is replaced by: the modifiers,  *)
(* each followed by a space, then the type name.                           *)
RECURSIVE typeText(_, _)
typeText(modifiers, name) ==
    IF modifiers = <<>> THEN name
    ELSE Head(modifiers) \o <<" ">> \o typeText(Tail(modifiers), name)

(* source.replace(index, 1, name): std::out_of_range when index is behind  *)
(* the end of the string; curr is left as it was.                          *)
replaceComma(p, name) ==
    IF p.index > Len(p.source)
    THEN Throw(p, runtime_error("basic_string::replace"))
    ELSE [p EXCEPT !.source = SubSeq(p.source, 1, p.index) \o name
                              \o SubSeq(p.source, p.index + 2, Len(p.source))]

Parser_parseDefinition(p, declaration, isGlobal) ==
    LET length == lengthLoop(p, <<>>)
        isArray == Len(length.v) > 0
        eq == lookahead(length, <<"=">>, FALSE)
        value == IF eq.v THEN parseExpression(eq, <<>>) ELSE R(eq, Null)
        base == IF eq.v
                THEN (IF isArray THEN "ArrayDefinition" ELSE "VariableDefinition")
                ELSE (IF isArray THEN "ArrayDeclaration" ELSE "VariableDeclaration")
    IN  CASE length.failed -> length
          [] eq.failed -> eq
          [] value.failed -> value
          [] OTHER ->
                R(IF value.curr = ","
                  THEN replaceComma(value, typeText(declaration.type.modifiers,
                                                    declaration.type.name))
                  ELSE consume(value, <<";">>),
                  [kind |-> IF isGlobal THEN "Global" \o base ELSE base,
                   position |-> declaration.position,
                   identifier |-> declaration.identifier,
                   type |-> declaration.type,
                   length |-> IF isArray THEN length.v ELSE Null,
                   value |-> value.v])

(* while (declarationIncoming()) { ... } consume(")"): v is params.        *)
RECURSIVE parametersLoop(_, _)
parametersLoop(p, params) ==
    LET incoming == declarationIncoming(p)
        declaration == parseDeclaration(incoming, "ParameterDeclaration")
        close == lookahead(declaration, <<")">>, FALSE)
    IN  CASE incoming.failed -> incoming
          [] ~incoming.v -> R(consume(incoming, <<")">>), params)
          [] declaration.failed -> declaration
          [] close.failed -> close
          [] close.v -> R(close, Append(params, declaration.v))
          [] OTHER -> parametersLoop(consume(close, <<",">>),
                                     Append(params, declaration.v))

Parser_parseParameters(p) == parametersLoop(p, <<>>)

----------------------------------------------------------------------------
(* Statements.                                                             *)

(* if (!comments.empty()) { for (comment: comments) statements.push_back(  *)
(* comment); comments.clear(); }: v is statements.                         *)
flush(p, list) ==
    IF p.failed THEN p
    ELSE R([p EXCEPT !.comments = <<>>], list \o p.comments)

(* while (curr && curr != '}') { statements.push_back(parseStatement());   *)
(* ... }: v is statements.                                                 *)
RECURSIVE blockLoop(_, _)
blockLoop(p, list) ==
    CASE p.failed -> p
      [] p.curr # NUL /\ p.curr # "}" ->
            LET statement == parseStatement(p)
                f == flush(statement, Append(list, statement.v))
            IN  IF statement.failed THEN statement ELSE blockLoop(f, f.v)
      [] OTHER -> R(p, list)

blockStatement(p) ==
    LET open == consume(p, <<"{">>)
        f == flush(open, <<>>)
        body == blockLoop(f, f.v)
    IN  CASE open.failed -> open
          [] body.failed -> body
          [] OTHER -> R(consume(body, <<"}">>),
                        [kind |-> "BlockStatement", position |-> p.lineNumber,
                         body |-> body.v])

inlineStatement(p) ==
    LET f == flush(p, <<>>)
        semi == lookahead(f, <<";">>, FALSE)
        statement == parseStatement(semi)
    IN  CASE semi.failed -> semi
          [] semi.v -> R(semi, [kind |-> "InlineStatement",
                                position |-> p.lineNumber, body |-> f.v])
          [] OTHER -> R(statement,
                        [kind |-> "InlineStatement", position |-> p.lineNumber,
                         body |-> Append(f.v, statement.v)])

Parser_parseBody(p, shouldBeBlock) ==
    CASE p.failed -> p
      [] p.curr = "{" \/ shouldBeBlock -> blockStatement(p)
      [] OTHER -> inlineStatement(p)

(* consume("("); json condition = parseExpression(")"); if                 *)
(* (condition.is_null()) throw unexpected(what);                           *)
condition(p, what) ==
    LET e == parseExpression(consume(p, <<"(">>), <<")">>)
    IN  CASE e.failed -> e
          [] IsNull(e.v) -> Throw(e, unexpected(e, <<what>>))
          [] OTHER -> e

ifStatement(p) ==
    LET cond == condition(p, "if condition")
        early == lookahead(cond, <<"e","l","s","e">>, FALSE)
        body == parseBody(early, FALSE)
        else == lookahead(body, <<"e","l","s","e">>, FALSE)
        elseBody == IF else.v THEN parseBody(else, FALSE) ELSE R(else, Null)
    IN  CASE cond.failed -> cond
          [] early.failed -> early
          [] early.v -> Throw(early, unexpected(early, <<"if body statement">>))
          [] body.failed -> body
          [] else.failed -> else
          [] OTHER -> R(elseBody,
                        [kind |-> "IfStatement", position |-> p.lineNumber,
                         condition |-> cond.v, body |-> body.v,
                         elseBody |-> elseBody.v])

whileStatement(p) ==
    LET cond == condition(p, "while condition")
        body == parseBody(cond, FALSE)
    IN  CASE cond.failed -> cond
          [] OTHER -> R(body, [kind |-> "WhileStatement",
                               position |-> p.lineNumber,
                               condition |-> cond.v, body |-> body.v])

doWhileStatement(p) ==
    LET body == parseBody(p, FALSE)
        cond == condition(consume(body, <<"w","h","i","l","e">>),
                          "while condition")
    IN  CASE body.failed -> body
          [] cond.failed -> cond
          [] OTHER -> R(consume(cond, <<";">>),
                        [kind |-> "DoWhileStatement", position |-> p.lineNumber,
                         condition |-> cond.v, body |-> body.v])

(* if (kind == "VariableDefinition" || kind == "VariableDeclaration")      *)
(* init["kind"] = "For" + kind;                                            *)
forInit(init) ==
    IF init.kind \in {"VariableDefinition", "VariableDeclaration"}
    THEN [init EXCEPT !.kind = "For" \o @]
    ELSE init

forStatement(p) ==
    LET init == parseStatement(consume(p, <<"(">>))
        cond == parseExpression(init, <<";">>)
        step == parseExpression(cond, <<")">>)
        body == parseBody(step, FALSE)
    IN  CASE init.failed -> init
          [] cond.failed -> cond
          [] step.failed -> step
          [] OTHER -> R(body,
                        [kind |-> "ForStatement", position |-> p.lineNumber,
                         init |-> forInit(init.v), condition |-> cond.v,
                         step |-> step.v, body |-> body.v])

returnStatement(p) ==
    LET e == parseExpression(p, <<";">>)
    IN  R(e, [kind |-> "ReturnStatement", position |-> p.lineNumber,
              value |-> e.v])

(* break and continue.                                                     *)
interruptStatement(p, kind) ==
    LET e == parseExpression(p, <<";">>)
    IN  R(e, [kind |-> kind, position |-> p.lineNumber, label |-> e.v])

expressionStatement(p) ==
    LET e == parseExpression(p, <<";">>)
    IN  R(e, [kind |-> "ExpressionStatement", position |-> p.lineNumber,
              expression |-> e.v])

(* return parseDefinition(parseDeclaration());                             *)
localDefinition(p) ==
    LET declaration == parseDeclaration(p, "")
    IN  IF declaration.failed THEN declaration
        ELSE parseDefinition(declaration, declaration.v, FALSE)

Parser_parseStatement(p) ==
    LET kIf == lookahead(p, <<"i","f">>, FALSE)
        kWhile == lookahead(kIf, <<"w","h","i","l","e">>, FALSE)
        kDo == lookahead(kWhile, <<"d","o">>, FALSE)
        kFor == lookahead(kDo, <<"f","o","r">>, FALSE)
        kReturn == lookahead(kFor, <<"r","e","t","u","r","n">>, FALSE)
        kBreak == lookahead(kReturn, <<"b","r","e","a","k">>, FALSE)
        kContinue == lookahead(kBreak, <<"c","o","n","t","i","n","u","e">>,
                               FALSE)
        incoming == declarationIncoming(kContinue)
    IN  CASE kIf.failed -> kIf
          [] kIf.v -> ifStatement(kIf)
          [] kWhile.failed -> kWhile
          [] kWhile.v -> whileStatement(kWhile)
          [] kDo.failed -> kDo
          [] kDo.v -> doWhileStatement(kDo)
          [] kFor.failed -> kFor
          [] kFor.v -> forStatement(kFor)
          [] kReturn.failed -> kReturn
          [] kReturn.v -> returnStatement(kReturn)
          [] kBreak.failed -> kBreak
          [] kBreak.v -> interruptStatement(kBreak, "BreakStatement")
          [] kContinue.failed -> kContinue
          [] kContinue.v -> interruptStatement(kContinue, "ContinueStatement")
          [] incoming.failed -> incoming
          [] incoming.v -> localDefinition(incoming)
          [] OTHER -> expressionStatement(incoming)

Parser_parseFunction(p, declaration) ==
    LET parameters == parseParameters(p)
        semi == lookahead(parameters, <<";">>, FALSE)
        body == parseBody(semi, TRUE)
    IN  CASE parameters.failed -> parameters
          [] semi.failed -> semi
          [] semi.v -> R(semi, [kind |-> "FunctionDeclaration",
                                position |-> declaration.position,
                                identifier |-> declaration.identifier,
                                type |-> declaration.type,
                                parameters |-> parameters.v])
          [] OTHER -> R(body, [kind |-> "FunctionDefinition",
                               position |-> declaration.position,
                               identifier |-> declaration.identifier,
                               type |-> declaration.type,
                               parameters |-> parameters.v,
                               body |-> body.v])

----------------------------------------------------------------------------
(* The top level.                                                          *)

(* while (curr && curr != close) { str.push_back(curr); next(true); }: v   *)
(* is str.                                                                 *)
RECURSIVE includeLoop(_, _, _)
includeLoop(p, str, close) ==
    IF p.failed THEN p
    ELSE IF p.curr # NUL /\ p.curr # close
    THEN includeLoop(next(p, TRUE, FALSE), Append(str, p.curr), close)
    ELSE R(p, str)

Parser_parseInclude(p) ==
    LET str == IF p.curr = "<" THEN includeLoop(p, <<>>, ">")
               ELSE includeLoop(next(p, TRUE, FALSE), <<p.curr>>, "\"")
    IN  CASE p.failed -> p
          [] p.curr # "<" /\ p.curr # "\"" ->
                Throw(p, unexpected(p, <<"\" or <">>))
          [] str.failed -> str
          [] OTHER -> R(next(str, TRUE, FALSE),
                        [kind |-> "IncludeStatement", position |-> p.lineNumber,
                         file |-> Append(str.v, str.curr)])

Parser_parsePredefine(p) ==
    LET identifier == parseIdentifier(p, FALSE)
        paren == lookahead(identifier, <<"(">>, FALSE)
        isArguments == paren.v /\ paren.curr # NUL
        list == expressionList(paren, <<>>)
        arguments == IF paren.v THEN R(consume(list, <<")">>), list.v)
                     ELSE R(paren, <<>>)
        str == parseExpression(arguments, <<>>)
    IN  CASE identifier.failed -> identifier
          [] paren.failed -> paren
          [] arguments.failed -> arguments
          [] isArguments /\ arguments.curr # "(" ->
                Throw(arguments, unexpected(arguments, <<"(">>))
          [] OTHER -> R(str, [kind |-> "PredefineStatement",
                              position |-> p.lineNumber,
                              identifier |-> identifier.v,
                              arguments |-> IF isArguments THEN arguments.v
                                            ELSE Null,
                              value |-> str.v])

(* Declaration declaration = parseDeclaration(); if (lookahead("(")) ...   *)
(* parseFunction(declaration) else parseDefinition(declaration, true)      *)
globalDeclaration(p) ==
    LET declaration == parseDeclaration(p, "")
        paren == lookahead(declaration, <<"(">>, FALSE)
    IN  CASE declaration.failed -> declaration
          [] paren.failed -> paren
          [] paren.v -> parseFunction(paren, declaration.v)
          [] OTHER -> parseDefinition(paren, declaration.v, TRUE)

(* Declaration declaration = parseDeclaration("TypeDefinition");           *)
(* typeNames.push_back(declaration.identifier.name); consume(";");         *)
typeDefinition(p) ==
    LET declaration == parseDeclaration(p, "TypeDefinition")
    IN  IF declaration.failed THEN declaration
        ELSE R(consume([declaration EXCEPT !.typeNames =
                           Append(@, declaration.v.identifier.name)],
                       <<";">>),
               declaration.v)

(* The branches of the loop body of parse(): v is the item pushed.         *)
parseItem(p) ==
    LET kInclude == lookahead(p, <<"#","i","n","c","l","u","d","e">>, FALSE)
        kDefine == lookahead(kInclude, <<"#","d","e","f","i","n","e">>, FALSE)
        incoming == declarationIncoming(kDefine)
        kTypedef == lookahead(incoming, <<"t","y","p","e","d","e","f">>, FALSE)
        kStruct == lookahead(kTypedef, <<"s","t","r","u","c","t">>, FALSE)
        kEnum == lookahead(kStruct, <<"e","n","u","m">>, FALSE)
    IN  CASE kInclude.failed -> kInclude
          [] kInclude.v -> parseInclude(kInclude)
          [] kDefine.failed -> kDefine
          [] kDefine.v -> parsePredefine(kDefine)
          [] incoming.failed -> incoming
          [] incoming.v -> globalDeclaration(incoming)
          [] kTypedef.failed -> kTypedef
          [] kTypedef.v -> typeDefinition(kTypedef)
          [] kStruct.failed -> kStruct
          [] kStruct.v ->
                Throw(kStruct, runtime_error("struct is not supported"))
          [] kEnum.failed -> kEnum
          [] kEnum.v -> Throw(kEnum, runtime_error("enum is not supported"))
          [] OTHER -> Throw(kEnum, unexpected(kEnum, <<"definition">>))

(* One turn of while (curr) { ... } in parse(): v is statements after it.  *)
Parser_parseTurn(p, list) ==
    LET before == flush(skipSpaces(p), list)
        item == parseItem(before)
        after == flush(item, Append(before.v, item.v))
    IN  CASE before.failed -> before
          [] item.failed -> item
          [] OTHER -> R(skipSpaces(after), after.v)

(* What each call does.                                                    *)
call(f, p, a) ==
    CASE f = "next" -> Parser_next(p, a[1], a[2])
      [] f = "skipSpaces" -> Parser_skipSpaces(p)
      [] f = "lookahead" -> Parser_lookahead(p, a[1], a[2])
      [] f = "consume" -> Parser_consume(p, a[1])
      [] f = "parseComment" -> Parser_parseComment(p)
      [] f = "parseIdentifier" -> Parser_parseIdentifier(p, a[1])
      [] f = "parseNumber" -> Parser_parseNumber(p, a[1])
      [] f = "parseEscape" -> Parser_parseEscape(p)
      [] f = "parseString" -> Parser_parseString(p, a[1])
      [] f = "scanBinaryOperator" -> Parser_scanBinaryOperator(p)
      [] f = "parseBinary" -> Parser_parseBinary(p, a[1], a[2])
      [] f = "parseExpression" -> Parser_parseExpression(p, a[1])
      [] f = "parseUnary" -> Parser_parseUnary(p)
      [] f = "parseLiteral" -> Parser_parseLiteral(p)
      [] f = "declarationIncoming" -> Parser_declarationIncoming(p)
      [] f = "parseDeclaration" -> Parser_parseDeclaration(p, a[1])
      [] f = "parseDefinition" -> Parser_parseDefinition(p, a[1], a[2])
      [] f = "parseParameters" -> Parser_parseParameters(p)
      [] f = "parseBody" -> Parser_parseBody(p, a[1])
      [] f = "parseStatement" -> Parser_parseStatement(p)
      [] f = "parseFunction" -> Parser_parseFunction(p, a[1])
      [] f = "parseInclude" -> Parser_parseInclude(p)
      [] f = "parsePredefine" -> Parser_parsePredefine(p)
      [] f = "parseTurn" -> Parser_parseTurn(p, a[1])
      [] f = "modifierPass" -> Parser_modifierPass(p, a[1], a[2], a[3], a[4])
      [] f = "scanLoop" -> Parser_scanLoop(p, a[1], a[2], a[3], a[4])
      [] f = "typeNameLoop" -> Parser_typeNameLoop(p, a[1], a[2])
      [] f = "lengthLoop" -> Parser_lengthLoop(p, a[1])

----------------------------------------------------------------------------
(* The parser object, and parse() as a state machine: pc is "start" before *)
(* the priming next(), "loop" at the head of while (curr), "done" after    *)
(* the Program is returned, "failed" after an exception left parse().      *)

Parser == [source |-> source, index |-> index, curr |-> curr,
           lineNumber |-> lineNumber, comments |-> comments,
           typeNames |-> typeNames, heap |-> heap, err |-> NoErr,
           failed |-> FALSE, v |-> Null, w |-> Null]

Store(q) ==
    /\ source' = q.source
    /\ index' = q.index
    /\ curr' = q.curr
    /\ lineNumber' = q.lineNumber
    /\ comments' = q.comments
    /\ typeNames' = q.typeNames
    /\ error' = q.err
    /\ UNCHANGED <<heap, arg>>

(* next();                                                                 *)
Start ==
    /\ pc = "start"
    /\ LET q == next(Parser, FALSE, FALSE)
       IN  /\ Store(q)
           /\ pc' = IF q.failed THEN "failed" ELSE "loop"
           /\ UNCHANGED <<statements, result>>

(* One turn of while (curr) { ... }; an exception leaves parse().          *)
Turn ==
    /\ pc = "loop"
    /\ curr # NUL
    /\ LET t == parseTurn(Parser, statements)
       IN  /\ Store(t)
           /\ statements' = IF t.failed THEN statements ELSE t.v
           /\ pc' = IF t.failed THEN "failed" ELSE "loop"
           /\ UNCHANGED result

(* Program program = {"Program", statements}; return program;              *)
Return ==
    /\ pc = "loop"
    /\ curr = NUL
    /\ result' = [kind |-> "Program", body |-> statements]
    /\ pc' = "done"
    /\ UNCHANGED <<source, index, curr, lineNumber, comments, typeNames, heap,
                   statements, error, arg>>

----------------------------------------------------------------------------
(* The inputs: programs of up to MaxItems top-level items, and the         *)
(* scenarios.                                                              *)

MaxItems == 2

\* int x; 
ItemIntX ==
    <<"i","n","t"," ","x",";"," ">>

\* typedef int T; 
ItemTypedef ==
    <<"t","y","p","e","d","e","f"," ","i","n","t"," ","T",";"," ">>

\* T y; 
ItemUseT ==
    <<"T"," ","y",";"," ">>

\* unsigned z;\n
ItemUnsigned ==
    <<"u","n","s","i","g","n","e","d"," ","z",";","\n">>

\* int a, b=1; 
ItemTwo ==
    <<"i","n","t"," ","a",","," ","b","=","1",";"," ">>

\* int/*a*//*b*/ v; 
ItemTwoComments ==
    <<"i","n","t","/","*","a","*","/","/","*","b","*","/"," ","v",";"," ">>

\* /* c */ 
ItemBlockComment ==
    <<"/","*"," ","c"," ","*","/"," ">>

\* // d\n
ItemInlineComment ==
    <<"/","/"," ","d","\n">>

\* int\nw; 
ItemNewline ==
    <<"i","n","t","\n","w",";"," ">>

\* struct s; 
ItemStruct ==
    <<"s","t","r","u","c","t"," ","s",";"," ">>

\* int f() { return 0; } 
ItemFunction ==
    <<"i","n","t"," ","f","(",")"," ","{"," ","r","e","t","u","r","n"," ",
      "0",";"," ","}"," ">>

\* int h = 0x0F; 
ItemHex ==
    <<"i","n","t"," ","h"," ","="," ","0","x","0","F",";"," ">>

Items == <<ItemIntX, ItemTypedef, ItemUseT, ItemUnsigned, ItemTwo, ItemTwoComments, ItemBlockComment, ItemInlineComment, ItemNewline, ItemStruct, ItemFunction, ItemHex>>

\* int main() { return 0; }
SrcMain ==
    <<"i","n","t"," ","m","a","i","n","(",")"," ","{"," ","r","e","t","u",
      "r","n"," ","0",";"," ","}">>

\* void g() { if (a) b(); else c(); }
SrcIfElse ==
    <<"v","o","i","d"," ","g","(",")"," ","{"," ","i","f"," ","(","a",")",
      " ","b","(",")",";"," ","e","l","s","e"," ","c","(",")",";"," ","}">>

\* void g() { f(); }
SrcCall ==
    <<"v","o","i","d"," ","g","(",")"," ","{"," ","f","(",")",";"," ","}">>

\* int a,b=1;
SrcTwoTight ==
    <<"i","n","t"," ","a",",","b","=","1",";">>

\* static int a,  b=1;
SrcTwoModifiers ==
    <<"s","t","a","t","i","c"," ","i","n","t"," ","a",","," "," ","b","=",
      "1",";">>

\* void k() { int a, b=1; }
SrcTwoLocal ==
    <<"v","o","i","d"," ","k","(",")"," ","{"," ","i","n","t"," ","a",",",
      " ","b","=","1",";"," ","}">>

\* void k() { int a,b=1; }
SrcTwoLocalTight ==
    <<"v","o","i","d"," ","k","(",")"," ","{"," ","i","n","t"," ","a",",",
      "b","=","1",";"," ","}">>

\* unsigned long x = 1L;
SrcUnsignedLong ==
    <<"u","n","s","i","g","n","e","d"," ","l","o","n","g"," ","x"," ","=",
      " ","1","L",";">>

\* int i = 0;
SrcZero ==
    <<"i","n","t"," ","i"," ","="," ","0",";">>

\* void l() { for (int i = 0; i < 10; i = i + 1) { } }
SrcFor ==
    <<"v","o","i","d"," ","l","(",")"," ","{"," ","f","o","r"," ","(","i",
      "n","t"," ","i"," ","="," ","0",";"," ","i"," ","<"," ","1","0",";",
      " ","i"," ","="," ","i"," ","+"," ","1",")"," ","{"," ","}"," ","}">>

\* #include <stdio.h>\nint x;
SrcInclude ==
    <<"#","i","n","c","l","u","d","e"," ","<","s","t","d","i","o",".","h",
      ">","\n","i","n","t"," ","x",";">>

\* #define N 10\nint x;
SrcDefine ==
    <<"#","d","e","f","i","n","e"," ","N"," ","1","0","\n","i","n","t"," ",
      "x",";">>

\* int x;\nenum e;
SrcEnum ==
    <<"i","n","t"," ","x",";","\n","e","n","u","m"," ","e",";">>

\* int x;\n<BEL>
SrcIllegal ==
    <<"i","n","t"," ","x",";","\n",BEL>>

\* int x;\n\nx = 1;
SrcNoDefinition ==
    <<"i","n","t"," ","x",";","\n","\n","x"," ","="," ","1",";">>

\* int /* e */ x;
SrcCommentAfterType ==
    <<"i","n","t"," ","/","*"," ","e"," ","*","/"," ","x",";">>

\* int x = 1 + /* e */ 2;
SrcCommentAfterOperator ==
    <<"i","n","t"," ","x"," ","="," ","1"," ","+"," ","/","*"," ","e"," ",
      "*","/"," ","2",";">>

\* //\nint x;\n
SrcEmptyInline ==
    <<"/","/","\n","i","n","t"," ","x",";","\n">>

\* int x; /* c
SrcOpenBlockComment ==
    <<"i","n","t"," ","x",";"," ","/","*"," ","c">>

\* int x; // c
SrcOpenInlineComment ==
    <<"i","n","t"," ","x",";"," ","/","/"," ","c">>

\* char c = '
SrcOpenChar ==
    <<"c","h","a","r"," ","c"," ","="," ","'">>

\* #include <a
SrcOpenInclude ==
    <<"#","i","n","c","l","u","d","e"," ","<","a">>

Scenarios == {SrcMain, SrcIfElse, SrcCall, SrcTwoTight, SrcTwoModifiers, SrcTwoLocal, SrcTwoLocalTight, SrcUnsignedLong, SrcZero, SrcFor, SrcInclude, SrcDefine, SrcEnum, SrcIllegal, SrcNoDefinition, SrcCommentAfterType, SrcCommentAfterOperator, SrcEmptyInline, SrcOpenBlockComment, SrcOpenInlineComment, SrcOpenChar, SrcOpenInclude}

RECURSIVE Concat(_)
Concat(seqs) == IF seqs = <<>> THEN <<>> ELSE Head(seqs) \o Concat(Tail(seqs))

Programs ==
    UNION { { Concat([i \in 1..k |-> Items[f[i]]]) :
                f \in [1..k -> 1..Len(Items)] } : k \in 1..MaxItems }

Inputs == Scenarios \cup Programs

(* What lies behind the buffer of the source string.                       *)
Heaps == { <<>>, <<"*", "/", NUL>> }

Init ==
    /\ source \in Inputs
    /\ arg = source
    /\ heap \in Heaps
    /\ index = -1
    /\ curr = NUL
    /\ lineNumber = 1
    /\ comments = <<>>
    /\ typeNames = builtinTypeNames
    /\ statements = <<>>
    /\ pc = "start"
    /\ error = NoErr
    /\ result = Null

Next == Start \/ Turn \/ Return

Spec == Init /\ [][Next]_vars

----------------------------------------------------------------------------
(* Reading the tree that parse() returns.                                  *)

ArrayKinds ==
    {"ArrayDefinition", "ArrayDeclaration", "GlobalArrayDefinition",
     "GlobalArrayDeclaration"}

VariableKinds ==
    {"VariableDefinition", "VariableDeclaration", "GlobalVariableDefinition",
     "GlobalVariableDeclaration", "ForVariableDefinition",
     "ForVariableDeclaration"}

(* The kinds of the nodes that are made from a Declaration.                *)
DeclarationKinds ==
    ArrayKinds \cup VariableKinds \cup
    {"Declaration", "ParameterDeclaration", "TypeDefinition",
     "FunctionDeclaration", "FunctionDefinition"}

CommentKinds == {"BlockComment", "InlineComment"}

(* The nodes a node holds, in the order of the source.                     *)
Children(n) ==
    CASE n.kind \in {"Program", "BlockStatement", "InlineStatement"} -> n.body
      [] n.kind = "FunctionDefinition" -> n.parameters \o <<n.body>>
      [] n.kind = "FunctionDeclaration" -> n.parameters
      [] n.kind = "IfStatement" -> <<n.condition, n.body, n.elseBody>>
      [] n.kind = "WhileStatement" -> <<n.condition, n.body>>
      [] n.kind = "DoWhileStatement" -> <<n.body, n.condition>>
      [] n.kind = "ForStatement" -> <<n.init, n.condition, n.step, n.body>>
      [] n.kind = "ReturnStatement" -> <<n.value>>
      [] n.kind \in {"BreakStatement", "ContinueStatement"} -> <<n.label>>
      [] n.kind = "ExpressionStatement" -> <<n.expression>>
      [] n.kind \in ArrayKinds -> n.length \o <<n.value>>
      [] n.kind \in VariableKinds -> <<n.value>>
      [] n.kind = "BinaryExpression" -> <<n.left, n.right>>
      [] n.kind = "IndexExpression" -> <<n.array>> \o n.indexes
      [] n.kind = "CallExpression" -> <<n.callee>> \o n.arguments
      [] n.kind = "ParenthesesExpression" -> <<n.expression>>
      [] n.kind = "ArrayLiteral" -> n.value
      [] n.kind = "PredefineStatement" ->
            (IF n.arguments = Null THEN <<>> ELSE n.arguments) \o <<n.value>>
      [] OTHER -> <<>>

(* The nodes of a tree in tree order: a node, then what it holds.          *)
RECURSIVE Nodes(_), NodesOf(_)
Nodes(n) == <<n>> \o NodesOf(Children(n))
NodesOf(list) ==
    IF list = <<>> THEN <<>> ELSE Nodes(Head(list)) \o NodesOf(Tail(list))

NodeSet(n) == { Nodes(n)[i] : i \in 1..Len(Nodes(n)) }

(* parse() stopped on the terminating NUL of the source: nothing behind    *)
(* the buffer was taken for source text.                                   *)
WithinSource == index <= Len(source)

Min(S) == CHOOSE x \in S : \A y \in S : x <= y

(* The text t stands in s at place i (places count from 1).                *)
At(s, i, t) ==
    /\ i >= 1
    /\ i + Len(t) - 1 <= Len(s)
    /\ SubSeq(s, i, i + Len(t) - 1) = t

----------------------------------------------------------------------------
(* The messages that come from unexpected().                               *)

LineAnnotated(e, n) ==
    LET head == <<"Line number ">> \o to_string(n) \o <<": Expect ">>
    IN  Len(e) > Len(head) /\ SubSeq(e, 1, Len(head)) = head

(* C1: whatever the source, parse() either returns a complete Program or   *)
(* aborts with one error whose message carries the current line number     *)
(* ("Line number N: ..."), and returns no tree at all in that case.  The   *)
(* abort of the process by a read outside its memory is left aside here.   *)
C1_ErrorsCarryTheLine ==
    /\ pc = "done" =>
          error = NoErr /\ result = [kind |-> "Program", body |-> statements]
    /\ pc = "failed" /\ error # Crash =>
          result = Null /\ LineAnnotated(error, lineNumber)

(* parse() has thrown on the struct keyword.                               *)
C1_StructRejected ==
    pc = "failed" /\ error = runtime_error("struct is not supported")

----------------------------------------------------------------------------
(* Comments in the tree and in the source.                                 *)

Opener(kind) == IF kind = "BlockComment" THEN <<"/", "*">> ELSE <<"/", "/">>

(* The places of s where a comment opens that reads as node c: the opener, *)
(* blanks, then the content of c.                                          *)
Openings(s, c) ==
    { i \in 1..Len(s) :
        /\ At(s, i, Opener(c.kind))
        /\ \E k \in (i + 2)..(Len(s) + 1) :
              /\ \A j \in (i + 2)..(k - 1) : isSpace(s[j])
              /\ At(s, k, c.content) }

CommentsOf(tree) == SelectSeq(Nodes(tree), LAMBDA n : n.kind \in CommentKinds)

RECURSIVE InSourceOrder(_, _, _, _)
InSourceOrder(s, out, k, from) ==
    \/ k > Len(out)
    \/ LET here == { i \in Openings(s, out[k]) : i >= from }
       IN  here # {} /\ InSourceOrder(s, out, k + 1, Min(here))

(* C2: when the parse succeeds, the comment nodes of the tree, read in     *)
(* tree order, stand in the order of the comments of the source: the nodes *)
(* can be matched to comments of the source going only forwards.           *)
C2_CommentsInSourceOrder ==
    pc = "done" /\ WithinSource =>
        InSourceOrder(arg, CommentsOf(result), 1, 1)

(* Two comments in a row after a type name have been parsed.               *)
C2_TwoCommentsParsed ==
    pc = "done" /\ arg = ItemTwoComments /\ Len(CommentsOf(result)) > 2

----------------------------------------------------------------------------
(* lookahead() on its own: the parser stands on the first character of a   *)
(* lexeme that is followed by a tail of up to MaxTail characters.          *)

MaxTail == 2

(* A keyword, a longer keyword, a type name and a type modifier.           *)
Lexemes ==
    { <<"i","f">>, <<"f","o","r">>, <<"i","n","t">>, <<"c","o","n","s","t">> }

TailChars == {"f", "Z", "0", "7", "_", " ", "(", ";"}

Tails == UNION { [1..n -> TailChars] : n \in 0..MaxTail }

InitLookahead ==
    /\ arg \in [str : Lexemes, tail : Tails]
    /\ source = arg.str \o arg.tail
    /\ heap = <<>>
    /\ index = 0
    /\ curr = source[1]
    /\ lineNumber = 1
    /\ comments = <<>>
    /\ typeNames = builtinTypeNames
    /\ statements = <<>>
    /\ pc = "look"
    /\ error = NoErr
    /\ result = Null

(* bool matched = lookahead(str);                                          *)
Look ==
    /\ pc = "look"
    /\ LET q == lookahead(Parser, arg.str, FALSE)
       IN  /\ Store(q)
           /\ result' = IF q.failed THEN Null ELSE q.v
           /\ pc' = IF q.failed THEN "failed" ELSE "looked"
           /\ UNCHANGED statements

NextLookahead == Look

SpecLookahead == InitLookahead /\ [][NextLookahead]_vars

(* C3: lookahead(s) for an identifier lexeme s returns false and puts the  *)
(* cursor back where it was whenever the character right after the matched *)
(* text is an identifier-body character (a letter, a digit or "_").        *)
C3_KeywordBoundary ==
    pc = "looked" /\ isIdentifier(arg.str) /\ arg.tail # <<>>
                  /\ isIdentifierBody(arg.tail[1]) =>
        result = FALSE /\ index = 0 /\ curr = arg.str[1]

(* lookahead("if") has run on text that goes on with a digit.              *)
C3_DigitAfterKeyword ==
    pc = "looked" /\ arg.str = <<"i","f">> /\ arg.tail # <<>>
                  /\ arg.tail[1] = "0"

----------------------------------------------------------------------------
(* parseExpression() on its own: chains x0 op1 x1 ... opn xn of up to      *)
(* MaxOps operators, written with and without blanks around the operators. *)

MaxOps == 3

(* Operators of five levels of precedence, two of the levels twice.        *)
ChainOps ==
    { <<"=">>, <<"=","=">>, <<"!","=">>, <<"<">>, <<"+">>, <<"-">>, <<"*">> }

Chains == UNION { [1..n -> ChainOps] : n \in 1..MaxOps }

OperandNames == <<"a", "b", "c", "d", "e", "g", "h">>

RECURSIVE Render(_, _, _)
Render(ops, k, blank) ==
    IF k > Len(ops) THEN <<OperandNames[k]>>
    ELSE <<OperandNames[k]>> \o blank \o ops[k] \o blank
           \o Render(ops, k + 1, blank)

InitExpr ==
    /\ arg \in [ops : Chains, blank : {<<>>, <<" ">>}]
    /\ source = Render(arg.ops, 1, arg.blank)
    /\ heap = <<>>
    /\ index = 0
    /\ curr = source[1]
    /\ lineNumber = 1
    /\ comments = <<>>
    /\ typeNames = builtinTypeNames
    /\ statements = <<>>
    /\ pc = "expr"
    /\ error = NoErr
    /\ result = Null

(* json expr = parseExpression();                                          *)
Express ==
    /\ pc = "expr"
    /\ LET q == parseExpression(Parser, <<>>)
       IN  /\ Store(q)
           /\ result' = q.v
           /\ pc' = IF q.failed THEN "failed" ELSE "parsed"
           /\ UNCHANGED statements

NextExpr == Express

SpecExpr == InitExpr /\ [][NextExpr]_vars

Max(S) == CHOOSE x \in S : \A y \in S : x >= y

(* The tree of a left-associative precedence parser for the operands       *)
(* lo..hi of a chain: the root is the last of the operators that bind      *)
(* least, its operands are the trees of what is left and right of it.      *)
RECURSIVE Reference(_, _, _)
Reference(ops, lo, hi) ==
    IF lo = hi
    THEN [kind |-> "Identifier", position |-> 1, name |-> <<OperandNames[lo]>>]
    ELSE LET least == Min({ precedence(ops[k]) : k \in lo..(hi - 1) })
             root == Max({ k \in lo..(hi - 1) : precedence(ops[k]) = least })
         IN  [kind |-> "BinaryExpression", position |-> 1,
              left |-> Reference(ops, lo, root),
              right |-> Reference(ops, root + 1, hi),
              op |-> ops[root]]

(* C4: for every chain of operands and configured binary operators,        *)
(* parseExpression returns the tree of a left-associative precedence       *)
(* parser: equal precedence groups to the left, higher precedence binds    *)
(* tighter, whatever the order of the levels in the chain.                 *)
C4_PrecedenceClimbing ==
    /\ pc # "failed"
    /\ pc = "parsed" =>
          /\ result = Reference(arg.ops, 1, Len(arg.ops) + 1)
          /\ curr = NUL

(* A chain of three operators of three levels, the loosest in the middle,  *)
(* has been parsed.                                                        *)
C4_ThreeLevels ==
    pc = "parsed" /\ arg.ops = << <<"*">>, <<"=">>, <<"+">> >>
                  /\ result.kind = "BinaryExpression"

----------------------------------------------------------------------------
(* Number literals in the tree.                                            *)

NumberPrefixes == {"", "Long", "Unsigned", "UnsignedLong"}

NumberKinds ==
    { prefix \o base :
        prefix \in NumberPrefixes,
        base \in {"NumberLiteral", "FloatNumberLiteral", "HexNumberLiteral",
                  "OctNumberLiteral"} }

Numbers(tree) == { n \in NodeSet(tree) : n.kind \in NumberKinds }

(* The Program of int main() { return 0; } with the literal of kind k.     *)
MainProgram(k) ==
    [kind |-> "Program",
     body |-> << [kind |-> "FunctionDefinition", position |-> 1,
                  identifier |-> [kind |-> "Identifier", position |-> 1,
                                  name |-> <<"m","a","i","n">>],
                  type |-> [kind |-> "Type", position |-> 1,
                            modifiers |-> <<>>, name |-> <<"i","n","t">>],
                  parameters |-> <<>>,
                  body |-> [kind |-> "BlockStatement", position |-> 1,
                            body |-> << [kind |-> "ReturnStatement",
                                         position |-> 1,
                                         value |-> [kind |-> k,
                                                    position |-> 1,
                                                    value |-> <<"0">>]] >>]]
              >>]

ZeroHasKind(k) ==
    pc = "done" =>
        /\ arg = SrcMain => result = MainProgram(k)
        /\ \A n \in Numbers(result) : n.value = <<"0">> => n.kind = k

(* C5 as it is claimed: int main() { return 0; } yields a Program with one *)
(* FunctionDefinition main, no parameters, a BlockStatement with one       *)
(* ReturnStatement whose value is a NumberLiteral "0"; the literal 0 gets  *)
(* kind NumberLiteral wherever it stands.                                  *)
C5_ZeroIsNumberLiteral == ZeroHasKind("NumberLiteral")

(* C5: int main() { return 0; } yields a Program with one                  *)
(* FunctionDefinition main, no parameters, a BlockStatement with one       *)
(* ReturnStatement whose value is an OctNumberLiteral "0"; the literal 0   *)
(* gets kind OctNumberLiteral wherever it stands.                          *)
C5_ZeroIsOctNumberLiteral == ZeroHasKind("OctNumberLiteral")

(* int main() { return 0; } has been parsed.                               *)
C5_MainParsed ==
    pc = "done" /\ arg = SrcMain /\ Numbers(result) # {}

----------------------------------------------------------------------------
(* Declarations in the tree.                                               *)

Range(s) == { s[i] : i \in 1..Len(s) }

Declarations(tree) == { d \in NodeSet(tree) : d.kind \in DeclarationKinds }

(* The type names known when item i of the top level is parsed: the        *)
(* built-in ones and those of the TypeDefinitions before it.               *)
KnownAt(list, i) ==
    Range(builtinTypeNames) \cup
    { list[j].identifier.name :
        j \in { j \in 1..(i - 1) : list[j].kind = "TypeDefinition" } }

(* In the source the name of the type of d is the word right before the    *)
(* identifier of d.                                                        *)
NameBeforeIdentifier(s, d) ==
    \E i \in 1..Len(s) :
        /\ At(s, i, d.type.name)
        /\ \E k \in (i + Len(d.type.name) + 1)..Len(s) :
              /\ \A j \in (i + Len(d.type.name))..(k - 1) : isSpace(s[j])
              /\ At(s, k, d.identifier.name)

(* C6 as it is claimed: every declaration node has a type.name that is a   *)
(* built-in type name or an identifier registered by an earlier            *)
(* TypeDefinition, never a type modifier.                                  *)
C6_TypeNameIsKnown ==
    \A i \in 1..Len(statements) :
        \A d \in Declarations(statements[i]) :
            d.type.name \in KnownAt(statements, i)

(* C6: every declaration node has a type.name that is a built-in type      *)
(* name or an identifier registered by an earlier TypeDefinition or, where *)
(* no type name follows the modifiers, the last of the modifiers.          *)
C6_TypeNameIsKnownOrLastModifier ==
    \A i \in 1..Len(statements) :
        \A d \in Declarations(statements[i]) :
            \/ d.type.name \in KnownAt(statements, i)
            \/ /\ d.type.name \in Range(typeModifiers)
               /\ NameBeforeIdentifier(source, d)

(* unsigned long x = 1L; has been parsed: the type is named by a modifier. *)
C6_ModifierNamesType ==
    /\ arg = SrcUnsignedLong
    /\ Len(statements) = 1
    /\ statements[1].type.name = <<"l","o","n","g">>
    /\ statements[1].type.modifiers = << <<"u","n","s","i","g","n","e","d">> >>

----------------------------------------------------------------------------
(* Statements with two declarators.                                        *)

TwoGlobal == {SrcTwoTight, SrcTwoModifiers, ItemTwo}

TwoLocal == {SrcTwoLocal, SrcTwoLocalTight}

Expanded(list, prefix) ==
    /\ Len(list) = 2
    /\ list[1].kind = prefix \o "VariableDeclaration"
    /\ list[1].identifier.name = <<"a">>
    /\ list[2].kind = prefix \o "VariableDefinition"
    /\ list[2].identifier.name = <<"b">>
    /\ list[2].value.kind = "NumberLiteral"
    /\ list[2].value.value = <<"1">>
    /\ list[1].type.name = <<"i","n","t">>
    /\ list[2].type.name = list[1].type.name
    /\ list[2].type.modifiers = list[1].type.modifiers

(* C7: a statement T a, b=1; is expanded into two declaration nodes in a   *)
(* row, a declaration of a and a definition of b with value 1, with the    *)
(* type name and the modifiers of T both, with or without blanks after the *)
(* comma, at the top level or in a block; the parse goes on after the ;.   *)
C7_DeclaratorsExpanded ==
    arg \in TwoGlobal \cup TwoLocal =>
        /\ pc # "failed"
        /\ pc = "done" /\ arg \in TwoGlobal => Expanded(result.body, "Global")
        /\ pc = "done" /\ arg \in TwoLocal =>
              /\ Len(result.body) = 1
              /\ result.body[1].kind = "FunctionDefinition"
              /\ Expanded(result.body[1].body.body, "")

(* int a,b=1; has been given and parse() is over.                          *)
C7_TightCommaParsed ==
    arg = SrcTwoTight /\ pc \in {"done", "failed"}

----------------------------------------------------------------------------
(* Calls in the tree.                                                      *)

Calls(tree) == { n \in NodeSet(tree) : n.kind = "CallExpression" }

EmptyCall(name) ==
    [kind |-> "CallExpression", position |-> 1, arguments |-> <<>>,
     callee |-> [kind |-> "Identifier", position |-> 1, name |-> <<name>>]]

OneCall(body, name) ==
    /\ body.kind = "InlineStatement"
    /\ Len(body.body) = 1
    /\ body.body[1].kind = "ExpressionStatement"
    /\ body.body[1].expression = EmptyCall(name)

(* C8: f() parses to a CallExpression with callee f and an empty sequence  *)
(* of arguments; in if (a) b(); else c(); body and elseBody are            *)
(* InlineStatements holding one ExpressionStatement whose CallExpression   *)
(* has no arguments.                                                       *)
C8_NoArguments ==
    /\ arg \in {SrcCall, SrcIfElse} => pc # "failed"
    /\ pc = "done" /\ arg = SrcCall =>
          Calls(result) = { EmptyCall("f") }
    /\ pc = "done" /\ arg = SrcIfElse =>
          LET if == result.body[1].body.body[1]
          IN  /\ if.kind = "IfStatement"
              /\ OneCall(if.body, "b")
              /\ OneCall(if.elseBody, "c")

(* void g() { f(); } has been parsed and holds a call.                     *)
C8_CallParsed ==
    pc = "done" /\ arg = SrcCall /\ Calls(result) # {}

----------------------------------------------------------------------------
(* The text of a comment.                                                  *)

Closer(kind) == IF kind = "BlockComment" THEN <<"*", "/">> ELSE <<"\n">>

Verbatim(s, c) ==
    /\ \A k \in 1..Len(c.content) : ~At(c.content, k, Closer(c.kind))
    /\ \E i \in 1..Len(s) :
          At(s, i, Opener(c.kind) \o c.content \o Closer(c.kind))

(* C9: the content of a comment node is the text of the source between the *)
(* opener and the terminator, unchanged: between the slash-star and the    *)
(* next star-slash for a block comment, between the two slashes and the    *)
(* next newline for an inline comment.                                     *)
C9_ContentVerbatim ==
    pc = "done" /\ WithinSource =>
        \A c \in Range(CommentsOf(result)) : Verbatim(arg, c)

(* A block comment written with blanks around its text has been parsed.    *)
C9_BlockCommentParsed ==
    /\ pc = "done"
    /\ WithinSource
    /\ arg = ItemBlockComment \o ItemIntX
    /\ \E c \in Range(CommentsOf(result)) : c.kind = "BlockComment"

----------------------------------------------------------------------------
(* Hexadecimal literals.                                                   *)

HexKinds == { prefix \o "HexNumberLiteral" : prefix \in NumberPrefixes }

OpensHex(value) ==
    At(value, 1, <<"0", "x">>) \/ At(value, 1, <<"-", "0", "x">>)

(* C10: a number literal that opens with 0x or -0x has the base kind       *)
(* HexNumberLiteral, with Long or Unsigned before it or not, whatever its  *)
(* digits, and its value is the text of the literal as it is written.      *)
C10_HexKind ==
    pc = "done" =>
        \A n \in Numbers(result) :
            OpensHex(n.value) =>
                /\ n.kind \in HexKinds
                /\ \E i \in 1..Len(arg) : At(arg, i, n.value)

(* int h = 0x0F; has been parsed.                                          *)
C10_HexParsed ==
    /\ pc = "done"
    /\ arg = ItemHex
    /\ \E n \in Numbers(result) : OpensHex(n.value)

----------------------------------------------------------------------------
(* The line of the cursor.                                                 *)

(* The number of newlines among the first n characters of s.               *)
Newlines(s, n) ==
    Cardinality({ i \in 1..(IF n < Len(s) THEN n ELSE Len(s)) : s[i] = "\n" })

(* C11: in every state reached while parsing, lineNumber is 1 plus the     *)
(* number of newlines of the source before index: a newline is counted     *)
(* once, also when a look-ahead that passed it is rolled back.             *)
C11_LineNumberIsTrue ==
    WithinSource => lineNumber = 1 + Newlines(source, index)

(* int\nw; has been parsed: declarationIncoming() has looked past the      *)
(* newline behind int and has gone back to the i.                          *)
C11_NewlineAfterTypeParsed ==
    pc = "done" /\ WithinSource /\ arg = ItemNewline

----------------------------------------------------------------------------
(* The cursor and the end of the source.                                   *)

(* C12: once parse() has set the cursor on the first character, index is   *)
(* at least 0 and at most the length of the source in every state: the     *)
(* cursor is never moved behind the terminating NUL, whatever the input    *)
(* ends in.                                                                *)
C12_CursorWithinSource ==
    pc # "start" => 0 <= index /\ index <= Len(source)

(* parse() has come to its end on a source that ends inside a block        *)
(* comment.                                                                *)
C12_OpenBlockCommentRead ==
    pc \in {"done", "failed"} /\ arg = SrcOpenBlockComment

----------------------------------------------------------------------------
(* The number of comments.                                                 *)

(* The places from i on where the text t stands in s.                      *)
From(s, i, t) == { j \in i..Len(s) : At(s, j, t) }

(* The number of comments of s from the place i on, for a source that has  *)
(* no comment opener inside a literal: a block comment runs to the next    *)
(* star-slash, an inline comment to the next newline.                      *)
RECURSIVE CommentCount(_, _)
CommentCount(s, i) ==
    CASE i > Len(s) -> 0
      [] At(s, i, Opener("BlockComment")) ->
            IF From(s, i + 2, Closer("BlockComment")) = {} THEN 1
            ELSE 1 + CommentCount(s, Min(From(s, i + 2,
                                              Closer("BlockComment"))) + 2)
      [] At(s, i, Opener("InlineComment")) ->
            IF From(s, i + 2, Closer("InlineComment")) = {} THEN 1
            ELSE 1 + CommentCount(s, Min(From(s, i + 2,
                                              Closer("InlineComment"))) + 1)
      [] OTHER -> CommentCount(s, i + 1)

(* C13: when the parse succeeds, the tree holds one comment node for every *)
(* comment of the source and no more: a look-ahead that is rolled back     *)
(* does not leave its comments in the queue to be pushed a second time.    *)
C13_OneNodePerComment ==
    pc = "done" /\ WithinSource =>
        Len(CommentsOf(result)) = CommentCount(arg, 1)

(* int /* e */ x; has been parsed: the comment lies behind a type name.    *)
C13_CommentAfterTypeParsed ==
    /\ pc = "done"
    /\ arg = SrcCommentAfterType
    /\ CommentsOf(result) # <<>>

====
